---- MODULE Spec2Model ----
(***************************************************************************)
(* The MongoDB line bridge of src/src/mongodb/index.ts.                    *)
(*                                                                         *)
(* One process: connectDB() runs from module load, every input line starts *)
(* an async handler, SIGTERM/SIGINT start shutdown().  Every `await` on a  *)
(* driver call is a suspension point.  The backend performs an awaited     *)
(* call in one step ("Performed": the store changes, the promise settles)  *)
(* and the function that awaits it resumes in a later step ("XReturns":    *)
(* its continuation up to the next driver call or to the response); other  *)
(* handlers and shutdown() may run between the two.                        *)
(*                                                                         *)
(* The backend is a MongoDB server as the specification describes it:      *)
(* creating a collection that exists is rejected, dropping a collection    *)
(* that is absent is rejected, a database is listed only while it holds a  *)
(* collection, writes into an absent collection create it.                 *)
(***************************************************************************)
EXTENDS Integers, Sequences, FiniteSets, TLC

\* ---------------------------------------------------------------- bounds
MaxLines == 2       \* input lines read by the loop
MaxSignals == 2     \* termination signals delivered

\* ----------------------------------------------------------- small helpers
Absent == "<absent>"                 \* a field the JSON object does not carry

LineIds == 1..MaxLines

\* ------------------------------------------------------------------ config
\* config.uri when MONGODB_URI is unset: 'mongodb://localhost:27017'
ConfigUri ==
  <<"m","o","n","g","o","d","b",":","/","/",
    "l","o","c","a","l","h","o","s","t",":","2","7","0","1","7">>

\* MONGODB_URI set to 'mongodb://u:p@h': user u, password p, host h
UriWithCredentials ==
  <<"m","o","n","g","o","d","b",":","/","/","u",":","p","@","h">>

\* MONGODB_URI set to 'mongodb://h:1/?a=b@c': no credentials, an option value
\* that holds "@"
UriWithAtInQuery ==
  <<"m","o","n","g","o","d","b",":","/","/","h",":","1","/","?","a","=","b","@","c">>

\* the values config.uri takes
Uris == {ConfigUri, UriWithCredentials, UriWithAtInQuery}

\* config.defaultDb when MONGODB_DB is unset
ConfigDefaultDb == "claude_db"

ScratchName == "_init"               \* the collection ensureDatabase creates and drops

DbNames == {"claude_db", "d"}
CollNames == {"_init", "c"}

\* ---------------------------------------------------------------- values
\* Every JavaScript value that reaches JSON.stringify is a record with a
\* `kind`; `undefined` is one of them.
Undefined == [kind |-> "undefined"]
Str(s) == [kind |-> "string", s |-> s]
IsUndefined(v) == v.kind = "undefined"

\* JSON.stringify of an object literal: a property whose value is undefined
\* is left out.  The envelope is the function from the property names that
\* are written to their values.
JSONstringify(obj) ==
  [k \in {f \in DOMAIN obj : ~IsUndefined(obj[f])} |-> obj[k]]

\* ------------------------------------------------------------- identifiers
ObjectIdHexLen == 24
HexDigits == {"0","1","2","3","4","5","6","7","8","9","a","b","c","d","e","f"}
DigitChar(n) == <<"0","1","2","3","4","5","6","7","8","9">>[n + 1]

\* the 24-digit hexadecimal text of the n-th identifier
Hex24(n) == [i \in 1..ObjectIdHexLen |-> IF i = ObjectIdHexLen THEN DigitChar(n) ELSE "0"]

\* new ObjectId(id) throws unless id is 24 hexadecimal digits
ObjectIdThrows(id) ==
  ~(Len(id) = ObjectIdHexLen /\ \A i \in 1..Len(id) : id[i] \in HexDigits)

\* insertOne gives the document of line l a fresh identifier
GeneratedId(l) == Hex24(l)

NoId == <<>>                          \* the JSON object carries no `id`
NoDoc == 0                            \* ... no document / update / query / keys
BadId == <<"z","z">>                  \* not a well-formed identifier
OtherId == Hex24(9)                   \* well-formed, the identifier of no document
SeedId == Hex24(8)                    \* the identifier of a document of an earlier run

\* ------------------------------------------------------------ input lines
Tags == {"health", "listDatabases", "listCollections", "createDocument",
         "findDocuments", "updateDocument", "deleteDocument", "aggregate",
         "createIndex", "listIndexes", "dropCollection"}

\* A line: json = FALSE when the text is not JSON at all; otherwise the
\* properties of the decoded object (x of the document, query, update,
\* keys; NoDoc when the property is missing).
Obj(tag) ==
  [json |-> TRUE, command |-> tag, dbName |-> Absent, collectionName |-> Absent,
   id |-> NoId, document |-> NoDoc, query |-> NoDoc, update |-> NoDoc,
   pipeline |-> Absent, keys |-> NoDoc]

NotJson == [Obj(Absent) EXCEPT !.json = FALSE]

InColl(tag, db, coll) == [Obj(tag) EXCEPT !.dbName = db, !.collectionName = coll]

InputLines ==
  { NotJson,
    Obj("bogus"),
    [Obj("createDocument") EXCEPT !.dbName = "d", !.document = 1],
    Obj("health"),
    Obj("listDatabases"),
    [Obj("listCollections") EXCEPT !.dbName = "d"],
    [Obj("listCollections") EXCEPT !.dbName = ConfigDefaultDb],
    [InColl("createDocument", "d", "c") EXCEPT !.document = 1],
    [InColl("createDocument", "d", ScratchName) EXCEPT !.document = 1],
    [InColl("findDocuments", "d", "c") EXCEPT !.query = 1],
    InColl("findDocuments", "d", "c"),
    [InColl("updateDocument", "d", "c") EXCEPT !.id = Hex24(1), !.update = 2],
    [InColl("updateDocument", "d", "c") EXCEPT !.id = OtherId, !.update = 2],
    [InColl("updateDocument", "d", "c") EXCEPT !.id = BadId, !.update = 2],
    [InColl("deleteDocument", "d", "c") EXCEPT !.id = Hex24(1)],
    [InColl("deleteDocument", "d", "c") EXCEPT !.id = BadId],
    [InColl("aggregate", "d", "c") EXCEPT !.pipeline = "[]"],
    [InColl("createIndex", "d", "c") EXCEPT !.keys = 1],
    InColl("listIndexes", "d", "c"),
    InColl("dropCollection", "d", "c") }

\* JSON.parse(line) throws a SyntaxError on a text that is not JSON
JSONparseThrows(line) == ~line.json

\* CommandSchema.parse(value): the closed union of the eleven command shapes
NeedsCollection(tag) == tag \in Tags \ {"health", "listDatabases", "listCollections"}

CommandSchemaThrows(v) ==
  \/ v.command \notin Tags
  \/ /\ v.command \notin {"health", "listDatabases"}
     /\ v.dbName = Absent
  \/ /\ NeedsCollection(v.command)
     /\ v.collectionName = Absent
  \/ v.command = "createDocument" /\ v.document = NoDoc
  \/ v.command = "updateDocument" /\ (v.id = NoId \/ v.update = NoDoc)
  \/ v.command = "deleteDocument" /\ v.id = NoId
  \/ v.command = "aggregate" /\ v.pipeline = Absent
  \/ v.command = "createIndex" /\ v.keys = NoDoc

\* the validated Command: only the properties of its own variant survive
CommandSchemaParse(v) ==
  IF v.command \in {"health", "listDatabases"}
  THEN Obj(v.command)
  ELSE IF v.command = "listCollections"
       THEN [Obj(v.command) EXCEPT !.dbName = v.dbName]
       ELSE v

NoCommand == Obj(Absent)              \* no Command was constructed for the line

\* 'dbName' in command
hasDbName(command) == command.dbName # Absent

\* ---------------------------------------------------------------- state
VARIABLES
  uri,        \* config.uri: MONGODB_URI or the default, fixed at module load
  colls,      \* backend: database name -> the collections it holds
  docs,       \* backend: <<database, collection>> -> its documents [id, x]
  idx,        \* backend: the <<database, collection>> pairs with the index x_1
  conn,       \* connectDB: the call it awaits ("connect", "create", "drop"), how an
              \* awaited call settled ("created", "createRejected", "dropped") or "done"
  lines,      \* the input lines read so far, in arrival order
  pc,         \* per line: the call its handler awaits, "unread" or "done"
  req,        \* per line: the validated Command (NoCommand if none)
  log,        \* per line: the gateway calls its handler has issued, in order
  errs,       \* per line: the errors raised while it was processed, in order
  settled,    \* per line: how the call it awaits has settled, Pending until then
  snap,       \* the store (colls, docs) the latest line of a waiting caller found
  out,        \* standard output: the lines written, each with the line it answers
  hung,       \* the lines whose awaited call will never return
  closeCalls, \* shutdown() invocations that have called client.close()
  closeResult,\* how the close that led to the exit ended: "none", "ok", "failed"
  exit        \* process.exit: [status, by], status -1 while the process runs

vars == <<uri, colls, docs, idx, conn, lines, pc, req, log, errs, settled, snap, out, hung,
          closeCalls, closeResult, exit>>

backend == <<colls, docs, idx>>
handlers == <<lines, pc, req, log, errs, settled, snap, out>>
shutdownVars == <<closeCalls, closeResult>>

Running == [status |-> -1, by |-> "none"]
Signals == {"SIGTERM", "SIGINT"}

\* ------------------------------------------------------------- the backend
\* A gateway call and what the server does with it.  Exec gives the reply
\* (ok, val or error message) and the store after the call.
Call(op, db, coll) == [op |-> op, db |-> db, coll |-> coll, id |-> NoId, x |-> NoDoc]

Reply(ok, val, c, d, i) == [ok |-> ok, val |-> val, colls |-> c, docs |-> d, idx |-> i]
Rejected(msg) == Reply(FALSE, Str(msg), colls, docs, idx)
Array(items) == [kind |-> "array", items |-> items]

DocsOf(db, coll) == docs[<<db, coll>>]
WithColl(db, coll) == [colls EXCEPT ![db] = @ \cup {coll}]

\* a slip: the filter selects every document
MatchingAny(here, id) == here

\* the filter { _id: new ObjectId(request.id) } of updateOne and deleteOne
Matching(here, id) == {d \in here : d.id = id}

\* a slip: the query is not handed to find
SelectedAll(here, query) == here

\* collection.find(request.query || {}): the documents whose fields equal
\* the query's, every document when there is no query
Selected(here, query) == {d \in here : query = NoDoc \/ d.x = query}

Exec(call, l) ==
  LET db == call.db
      coll == call.coll
      here == DocsOf(db, coll)
  IN CASE call.op = "createCollection" ->
            IF coll \in colls[db]
            THEN Rejected("NamespaceExists")
            ELSE Reply(TRUE, [kind |-> "collection"], WithColl(db, coll), docs, idx)
       [] call.op = "drop" ->
            IF coll \notin colls[db]
            THEN Rejected("NamespaceNotFound")
            ELSE Reply(TRUE, [kind |-> "boolean", b |-> TRUE],
                       [colls EXCEPT ![db] = @ \ {coll}],
                       [docs EXCEPT ![<<db, coll>>] = {}],
                       idx \ {<<db, coll>>})
       [] call.op = "listDatabases" ->
            Reply(TRUE, Array({n \in DbNames : colls[n] # {}}), colls, docs, idx)
       [] call.op = "listCollections" ->
            Reply(TRUE, Array(colls[db]), colls, docs, idx)
       [] call.op = "insertOne" ->
            Reply(TRUE, [kind |-> "insert", insertedId |-> GeneratedId(l), acknowledged |-> TRUE],
                  WithColl(db, coll),
                  [docs EXCEPT ![<<db, coll>>] = @ \cup {[id |-> GeneratedId(l), x |-> call.x]}],
                  idx)
       [] call.op = "find" ->
            Reply(TRUE, Array(Selected(here, call.x)), colls, docs, idx)
       [] call.op = "updateOne" ->
            LET hit == Matching(here, call.id)
                changed == {d \in hit : d.x # call.x}
            IN Reply(TRUE,
                     [kind |-> "update", matchedCount |-> Cardinality(hit),
                      modifiedCount |-> Cardinality(changed), acknowledged |-> TRUE],
                     colls,
                     [docs EXCEPT ![<<db, coll>>] =
                        (@ \ hit) \cup {[id |-> d.id, x |-> call.x] : d \in hit}],
                     idx)
       [] call.op = "deleteOne" ->
            LET hit == Matching(here, call.id)
            IN Reply(TRUE,
                     [kind |-> "delete", deletedCount |-> Cardinality(hit), acknowledged |-> TRUE],
                     colls, [docs EXCEPT ![<<db, coll>>] = @ \ hit], idx)
       [] call.op = "aggregate" ->
            Reply(TRUE, Array(here), colls, docs, idx)
       [] call.op = "createIndex" ->
            Reply(TRUE, Str("x_1"), WithColl(db, coll), docs, idx \cup {<<db, coll>>})
       [] call.op = "indexes" ->
            IF coll \notin colls[db]
            THEN Rejected("NamespaceNotFound")
            ELSE Reply(TRUE,
                       Array({"_id_"} \cup (IF <<db, coll>> \in idx THEN {"x_1"} ELSE {})),
                       colls, docs, idx)

\* How an awaited call can end: as the server decides, or with a failure
\* that has nothing to do with the store (network, permissions, a client
\* that is being closed).
Outcomes == {"normal", "fault"}
BackendFailure == "backend failure"

Perform(call, l, o) ==
  IF o = "normal" THEN Exec(call, l) ELSE Rejected(BackendFailure)

Store(r) == /\ colls' = r.colls
            /\ docs' = r.docs
            /\ idx' = r.idx

\* ----------------------------------------------------------- handleRequest
\* config.uri.replace(/\/[^/]+:[^@]+@/, '***@'): the leftmost match of
\* "/", a longest run without "/", ":", a run without "@", "@" is replaced.
RegexColons(u, i) ==
  {j \in (i + 2)..Len(u) : u[j] = ":" /\ \A m \in (i + 1)..(j - 1) : u[m] # "/"}
RegexAts(u, j) ==
  {k \in (j + 2)..Len(u) : u[k] = "@" /\ \A m \in (j + 1)..(k - 1) : u[m] # "@"}
RegexStarts(u) ==
  {i \in 1..Len(u) : u[i] = "/" /\ \E j \in RegexColons(u, i) : RegexAts(u, j) # {}}
Min(S) == CHOOSE a \in S : \A b \in S : a <= b
Max(S) == CHOOSE a \in S : \A b \in S : a >= b

Redact(u) ==
  IF RegexStarts(u) = {} THEN u
  ELSE LET i == Min(RegexStarts(u))
           j == Max({c \in RegexColons(u, i) : RegexAts(u, c) # {}})
           k == Min(RegexAts(u, j))
       IN SubSeq(u, 1, i - 1) \o <<"*", "*", "*", "@">> \o SubSeq(u, k + 1, Len(u))

HealthResponse ==
  [kind |-> "health", status |-> "ok", version |-> "0.1.0",
   defaultDb |-> ConfigDefaultDb, uri |-> Redact(uri)]

\* a slip: the default database whatever the command says
EffectiveDbDefault(request) == ConfigDefaultDb

\* const dbName = hasDbName(request) ? request.dbName : config.defaultDb
EffectiveDb(request) == IF hasDbName(request) THEN request.dbName ELSE ConfigDefaultDb

\* a slip: only `health` is exempted from ensureDatabase
NeedsEnsureButHealth(request) == request.command # "health"

\* request.command !== 'health' && request.command !== 'listDatabases'
NeedsEnsure(request) == request.command # "health" /\ request.command # "listDatabases"

\* a slip: the drop names another collection than the one created
EnsureDropCallOther(dbName) == Call("drop", dbName, "c")

\* ensureDatabase(dbName): createCollection('_init'), then drop it
EnsureCreateCall(dbName) == Call("createCollection", dbName, ScratchName)
\* db.collection('_init').drop()
EnsureDropCall(dbName) == Call("drop", dbName, ScratchName)

\* what the switch throws before any call is issued: new ObjectId(request.id)
\* in updateDocument and deleteDocument, and the default branch
SwitchThrows(request) ==
  \/ request.command \in {"updateDocument", "deleteDocument"} /\ ObjectIdThrows(request.id)
  \/ request.command \notin Tags
SwitchMessage(request) ==
  IF request.command \notin Tags THEN "Unknown command" ELSE "invalid ObjectId"

\* the gateway call of each case of the switch
OpCall(request) ==
  LET db == EffectiveDb(request)
      on(op) == Call(op, db, request.collectionName)
  IN CASE request.command = "listDatabases" -> Call("listDatabases", "admin", Absent)
       [] request.command = "listCollections" -> Call("listCollections", db, Absent)
       [] request.command = "createDocument" -> [on("insertOne") EXCEPT !.x = request.document]
       [] request.command = "findDocuments" -> [on("find") EXCEPT !.x = request.query]
       [] request.command = "updateDocument" ->
            [on("updateOne") EXCEPT !.id = request.id, !.x = request.update]
       [] request.command = "deleteDocument" -> [on("deleteOne") EXCEPT !.id = request.id]
       [] request.command = "aggregate" -> on("aggregate")
       [] request.command = "createIndex" -> [on("createIndex") EXCEPT !.x = request.keys]
       [] request.command = "listIndexes" -> on("indexes")
       [] request.command = "dropCollection" -> on("drop")

\* a slip: the listing is returned as the server gave it
ListedCollectionsAll(items) == items

\* collections.filter(col => col.name !== '_init')
ListedCollections(items) == {col \in items : col # ScratchName}

\* a slip: a case that falls through without `return`
ShapeNoReturn(request, val) == IF request.command = "createDocument" THEN Undefined ELSE val

\* the value each case returns from the call's result
Shape(request, val) ==
  CASE request.command = "listCollections" ->
         Array(ListedCollections(val.items))
    [] request.command = "createDocument" ->
         [kind |-> "created", id |-> val.insertedId, acknowledged |-> val.acknowledged]
    [] request.command = "updateDocument" ->
         [kind |-> "updated", matchedCount |-> val.matchedCount,
          modifiedCount |-> val.modifiedCount, acknowledged |-> val.acknowledged]
    [] request.command = "deleteDocument" ->
         [kind |-> "deleted", deletedCount |-> val.deletedCount,
          acknowledged |-> val.acknowledged]
    [] request.command = "createIndex" -> [kind |-> "index", indexName |-> val]
    [] request.command = "dropCollection" -> [kind |-> "dropped", dropped |-> val]
    [] OTHER -> val

\* ------------------------------------------------------- the line handler
\* console.log(JSON.stringify(obj)) for line l
Emit(l, obj) == Append(out, [line |-> l, env |-> JSONstringify(obj)])

\* try: console.log(JSON.stringify({ result: response }))
WriteResult(l, response) == Emit(l, [result |-> response])
\* catch: console.log(JSON.stringify({ error: error.message }))
WriteError(l, message) == Emit(l, [error |-> Str(message)])

Exit(status, by) == [status |-> status, by |-> by]

\* a slip: the handler rethrows; the unhandled rejection ends the process
CatchRethrow(l, message) == [out |-> out, exit |-> Exit(1, "uncaught")]

\* the catch block of the handler: the error becomes the line's response and
\* the process goes on
Catch(l, message) == [out |-> WriteError(l, message), exit |-> exit]

Set(f, l, v) == [f EXCEPT ![l] = v]
Issue(l, call) == Set(log, l, Append(log[l], call))
Raise(l, message) == Set(errs, l, Append(errs[l], message))

\* a slip: lines are taken up in any order
NextToReadAny == {l \in LineIds : pc[l] = "unread"}

\* the line the next 'line' event carries: lines arrive in order
NextToRead == {l \in LineIds : pc[l] = "unread" /\ \A k \in 1..(l - 1) : pc[k] # "unread"}

\* a slip: a handler resumes only when every earlier line is answered
RunnableInTurn(l) == l \notin hung /\ \A k \in 1..(l - 1) : pc[k] = "done"

\* each line's handler is its own async call: it resumes as soon as the call
\* it awaits has returned, whatever the other handlers wait for
Runnable(l) == l \notin hung

\* the handler of line l ends in its catch block
Thrown(l, message) ==
  /\ pc' = Set(pc, l, "done")
  /\ out' = Catch(l, message).out
  /\ exit' = Catch(l, message).exit
  /\ errs' = Raise(l, message)
  /\ log' = log

\* the switch of handleRequest, entered by line l with its Command; `swallowed`
\* are the errors raised so far in this step that did not reach the handler
EnterSwitch(l, request, swallowed) ==
  IF SwitchThrows(request)
  THEN /\ pc' = Set(pc, l, "done")
       /\ out' = Catch(l, SwitchMessage(request)).out
       /\ exit' = Catch(l, SwitchMessage(request)).exit
       /\ errs' = Set(errs, l, errs[l] \o swallowed \o <<SwitchMessage(request)>>)
       /\ log' = log
  ELSE /\ pc' = Set(pc, l, IF request.command = "health" THEN "respond" ELSE "op")
       /\ out' = out
       /\ exit' = exit
       /\ errs' = Set(errs, l, errs[l] \o swallowed)
       /\ log' = IF request.command = "health" THEN log ELSE Issue(l, OpCall(request))

\* await handleRequest(request) in the handler of line l, up to the first
\* await of handleRequest
HandleRequest(l, request) ==
  /\ req' = Set(req, l, request)
  /\ IF NeedsEnsure(request)
     THEN /\ pc' = Set(pc, l, "ensureCreate")
          /\ log' = Issue(l, EnsureCreateCall(EffectiveDb(request)))
          /\ UNCHANGED <<out, exit, errs>>
     ELSE EnterSwitch(l, request, <<>>)

\* rl.on('line'): JSON.parse, CommandSchema.parse and handleRequest up to
\* its first await
StartLine(l, line) ==
  /\ exit = Running
  /\ l \in NextToRead
  /\ lines' = Set(lines, l, line)
  /\ IF JSONparseThrows(line)
     THEN Thrown(l, "SyntaxError") /\ req' = req
     ELSE IF CommandSchemaThrows(line)
     THEN Thrown(l, "ZodError") /\ req' = req
     ELSE HandleRequest(l, CommandSchemaParse(line))
  /\ UNCHANGED <<uri, backend, conn, settled, hung, shutdownVars>>

\* a line arrives while other handlers may be in flight
ReadLine(l, line) == StartLine(l, line) /\ UNCHANGED snap

\* no handler is between its start and its response
Idle == \A k \in LineIds : pc[k] \in {"unread", "done"}

\* a line arrives from a caller that has waited for every earlier response;
\* snap remembers the store the line finds
ReadLineIdle(l, line) ==
  /\ Idle
  /\ StartLine(l, line)
  /\ snap' = [colls |-> colls, docs |-> docs]

\* the call the handler of line l awaits: the last one it issued
Awaited(l) == log[l][Len(log[l])]

Pending == [done |-> FALSE, ok |-> FALSE, val |-> Undefined]
Settled(r) == [done |-> TRUE, ok |-> r.ok, val |-> r.val]

\* the handler of line l is suspended at an await on a driver call
AtCall(l) == pc[l] \in {"ensureCreate", "ensureDrop", "op"}

\* the backend performs the call line l awaits (or the call fails on its
\* way): the store changes and the promise settles; the handler has not
\* resumed yet.  A call that hangs before this step is never performed.
CallPerformed(l, o) ==
  /\ exit = Running
  /\ AtCall(l)
  /\ ~settled[l].done
  /\ l \notin hung
  /\ o \in Outcomes
  /\ LET r == Perform(Awaited(l), l, o)
     IN /\ Store(r)
        /\ settled' = Set(settled, l, Settled(r))
  /\ UNCHANGED <<uri, conn, lines, pc, req, log, errs, snap, out, hung, shutdownVars, exit>>

\* await db.createCollection('_init') of ensureDatabase resumes: the drop is
\* issued, or the rejection travels up to the handler's catch
EnsureCreateReturns(l) ==
  /\ exit = Running
  /\ pc[l] = "ensureCreate"
  /\ settled[l].done
  /\ Runnable(l)
  /\ IF settled[l].ok
     THEN /\ pc' = Set(pc, l, "ensureDrop")
          /\ log' = Issue(l, EnsureDropCall(EffectiveDb(req[l])))
          /\ UNCHANGED <<out, exit, errs>>
     ELSE Thrown(l, settled[l].val.s)
  /\ settled' = Set(settled, l, Pending)
  /\ UNCHANGED <<uri, backend, conn, lines, req, hung, snap, shutdownVars>>

\* await db.collection('_init').drop().catch(() => {}) resumes; handleRequest
\* goes on into its switch
EnsureDropReturns(l) ==
  /\ exit = Running
  /\ pc[l] = "ensureDrop"
  /\ settled[l].done
  /\ Runnable(l)
  /\ EnterSwitch(l, req[l], IF settled[l].ok THEN <<>> ELSE <<settled[l].val.s>>)
  /\ settled' = Set(settled, l, Pending)
  /\ UNCHANGED <<uri, backend, conn, lines, req, hung, snap, shutdownVars>>

\* the awaited call of the switch has settled: handleRequest returns or
\* throws, await handleRequest(request) resumes and the handler writes
OpReturns(l) ==
  /\ exit = Running
  /\ pc[l] = "op"
  /\ settled[l].done
  /\ Runnable(l)
  /\ IF settled[l].ok
     THEN /\ pc' = Set(pc, l, "done")
          /\ out' = WriteResult(l, Shape(req[l], settled[l].val))
          /\ UNCHANGED <<exit, errs, log>>
     ELSE Thrown(l, settled[l].val.s)
  /\ settled' = Set(settled, l, Pending)
  /\ UNCHANGED <<uri, backend, conn, lines, req, hung, snap, shutdownVars>>

\* `health` awaited no call: await handleRequest(request) resumes
Respond(l) ==
  /\ exit = Running
  /\ pc[l] = "respond"
  /\ Runnable(l)
  /\ out' = WriteResult(l, HealthResponse)
  /\ pc' = Set(pc, l, "done")
  /\ UNCHANGED <<uri, backend, conn, lines, req, log, errs, settled, hung, snap, shutdownVars, exit>>

\* the call line l awaits never returns
Hang(l) ==
  /\ exit = Running
  /\ AtCall(l)
  /\ l \notin hung
  /\ hung' = hung \cup {l}
  /\ UNCHANGED <<uri, backend, conn, handlers, shutdownVars, exit>>

\* ---------------------------------------------------------------- connectDB
\* await client.connect()
ConnectReturns(o) ==
  /\ exit = Running
  /\ conn = "connect"
  /\ o \in Outcomes
  /\ IF o = "normal"
     THEN conn' = "create" /\ exit' = exit
     ELSE conn' = conn /\ exit' = Exit(1, "connectDB")
  /\ UNCHANGED <<uri, backend, handlers, hung, shutdownVars>>

\* the backend performs db.createCollection('_init') on the default database
ConnCreatePerformed(o) ==
  /\ exit = Running
  /\ conn = "create"
  /\ o \in Outcomes
  /\ LET r == Perform(Call("createCollection", ConfigDefaultDb, ScratchName), 0, o)
     IN /\ Store(r)
        /\ conn' = IF r.ok THEN "created" ELSE "createRejected"
  /\ UNCHANGED <<uri, handlers, hung, shutdownVars, exit>>

\* await db.createCollection('_init') resumes: the drop is issued, or the
\* catch of connectDB ends the process
ConnCreateReturns ==
  /\ exit = Running
  /\ conn \in {"created", "createRejected"}
  /\ IF conn = "created"
     THEN conn' = "drop" /\ exit' = exit
     ELSE conn' = conn /\ exit' = Exit(1, "connectDB")
  /\ UNCHANGED <<uri, backend, handlers, hung, shutdownVars>>

\* the backend performs db.collection('_init').drop(); .catch(() => {})
\* swallows a rejection
ConnDropPerformed(o) ==
  /\ exit = Running
  /\ conn = "drop"
  /\ o \in Outcomes
  /\ Store(Perform(Call("drop", ConfigDefaultDb, ScratchName), 0, o))
  /\ conn' = "dropped"
  /\ UNCHANGED <<uri, handlers, hung, shutdownVars, exit>>

\* await db.collection('_init').drop().catch(() => {}) resumes
ConnDropReturns ==
  /\ exit = Running
  /\ conn = "dropped"
  /\ conn' = "done"
  /\ UNCHANGED <<uri, backend, handlers, hung, shutdownVars, exit>>

\* ----------------------------------------------------------------- shutdown
\* process.on('SIGTERM', shutdown); process.on('SIGINT', shutdown)
OnSignal(sig) == "shutdown"

\* a slip: the catch of shutdown exits with 0 as well
ShutdownStatusZero(closed) == 0

\* process.exit(0) after the close, process.exit(1) in the catch
ShutdownStatus(closed) == IF closed THEN 0 ELSE 1

\* a signal arrives: shutdown() runs up to await client.close()
Signal(sig) ==
  /\ exit = Running
  /\ closeCalls < MaxSignals
  /\ IF OnSignal(sig) = "shutdown"
     THEN closeCalls' = closeCalls + 1 /\ exit' = exit
     ELSE closeCalls' = closeCalls /\ exit' = Exit(1, "signal")
  /\ UNCHANGED <<uri, backend, conn, handlers, hung, closeResult>>

\* await client.close() returns or throws; shutdown() exits
CloseReturns(closed) ==
  /\ exit = Running
  /\ closeCalls > 0
  /\ closeResult' = IF closed THEN "ok" ELSE "failed"
  /\ exit' = Exit(ShutdownStatus(closed), "shutdown")
  /\ UNCHANGED <<uri, backend, conn, handlers, hung, closeCalls>>

\* -------------------------------------------------------------------- spec
NoLine == [Obj(Absent) EXCEPT !.command = "<unread>"]

Init ==
  /\ uri = ConfigUri
  /\ colls = [n \in DbNames |-> {}]
  /\ docs = [p \in DbNames \X CollNames |-> {}]
  /\ idx = {}
  /\ conn = "connect"
  /\ lines = [l \in LineIds |-> NoLine]
  /\ pc = [l \in LineIds |-> "unread"]
  /\ req = [l \in LineIds |-> NoCommand]
  /\ log = [l \in LineIds |-> <<>>]
  /\ errs = [l \in LineIds |-> <<>>]
  /\ settled = [l \in LineIds |-> Pending]
  /\ snap = [colls |-> [n \in DbNames |-> {}], docs |-> [p \in DbNames \X CollNames |-> {}]]
  /\ out = <<>>
  /\ hung = {}
  /\ closeCalls = 0
  /\ closeResult = "none"
  /\ exit = Running

\* the lines the loop is fed when signals are delivered as well
CoreLines ==
  { NotJson,
    Obj("health"),
    Obj("listDatabases"),
    [InColl("createDocument", "d", "c") EXCEPT !.document = 1] }

\* the whole program: startup, the line loop, the signal handlers
Next ==
  \/ \E l \in LineIds, line \in CoreLines : ReadLine(l, line)
  \/ \E l \in LineIds, o \in Outcomes : CallPerformed(l, o)
  \/ \E l \in LineIds : EnsureCreateReturns(l)
  \/ \E l \in LineIds : EnsureDropReturns(l)
  \/ \E l \in LineIds : OpReturns(l)
  \/ \E l \in LineIds : Respond(l)
  \/ \E o \in Outcomes : ConnectReturns(o)
  \/ \E o \in Outcomes : ConnCreatePerformed(o)
  \/ ConnCreateReturns
  \/ \E o \in Outcomes : ConnDropPerformed(o)
  \/ ConnDropReturns
  \/ \E sig \in Signals : Signal(sig)
  \/ \E closed \in BOOLEAN : CloseReturns(closed)

Spec == Init /\ [][Next]_vars

\* startup is over: connectDB has connected, created and dropped its scratch
\* collection, and no line has been read
Started ==
  /\ uri = ConfigUri
  /\ colls = [n \in DbNames |-> {}]
  /\ docs = [p \in DbNames \X CollNames |-> {}]
  /\ idx = {}
  /\ conn = "done"
  /\ lines = [l \in LineIds |-> NoLine]
  /\ pc = [l \in LineIds |-> "unread"]
  /\ req = [l \in LineIds |-> NoCommand]
  /\ log = [l \in LineIds |-> <<>>]
  /\ errs = [l \in LineIds |-> <<>>]
  /\ settled = [l \in LineIds |-> Pending]
  /\ snap = [colls |-> colls, docs |-> docs]
  /\ out = <<>>
  /\ hung = {}
  /\ closeCalls = 0
  /\ closeResult = "none"
  /\ exit = Running

\* the lines that exercise ensureDatabase from overlapping requests
EnsureLines ==
  { Obj("health"),
    Obj("listDatabases"),
    [Obj("listCollections") EXCEPT !.dbName = "d"],
    [Obj("listCollections") EXCEPT !.dbName = ConfigDefaultDb],
    [InColl("createDocument", "d", "c") EXCEPT !.document = 1],
    [InColl("createDocument", "d", ScratchName) EXCEPT !.document = 1],
    [InColl("deleteDocument", "d", "c") EXCEPT !.id = BadId] }

\* the program after startup while no termination signal arrives; the
\* caller writes its lines without waiting for responses
NextLines ==
  \/ \E l \in LineIds, line \in EnsureLines : ReadLine(l, line)
  \/ \E l \in LineIds, o \in Outcomes : CallPerformed(l, o)
  \/ \E l \in LineIds : EnsureCreateReturns(l)
  \/ \E l \in LineIds : EnsureDropReturns(l)
  \/ \E l \in LineIds : OpReturns(l)
  \/ \E l \in LineIds : Respond(l)

SpecLines == Started /\ [][NextLines]_vars

\* the lines read while connectDB may still be running
StartupLines ==
  { Obj("health"),
    Obj("listDatabases"),
    [Obj("listCollections") EXCEPT !.dbName = ConfigDefaultDb],
    [InColl("createDocument", "d", "c") EXCEPT !.document = 1] }

\* startup next to the line loop while no termination signal arrives
NextStartup ==
  \/ \E l \in LineIds, line \in StartupLines : ReadLine(l, line)
  \/ \E l \in LineIds, o \in Outcomes : CallPerformed(l, o)
  \/ \E l \in LineIds : EnsureCreateReturns(l)
  \/ \E l \in LineIds : EnsureDropReturns(l)
  \/ \E l \in LineIds : OpReturns(l)
  \/ \E l \in LineIds : Respond(l)
  \/ \E o \in Outcomes : ConnectReturns(o)
  \/ \E o \in Outcomes : ConnCreatePerformed(o)
  \/ ConnCreateReturns
  \/ \E o \in Outcomes : ConnDropPerformed(o)
  \/ ConnDropReturns

SpecStartup == Init /\ [][NextStartup]_vars

\* the program after startup, fed by a caller that waits for each response
\* before it writes its next line, and sends every kind of line
NextSequential ==
  \/ \E l \in LineIds, line \in InputLines : ReadLineIdle(l, line)
  \/ \E l \in LineIds, o \in Outcomes : CallPerformed(l, o)
  \/ \E l \in LineIds : EnsureCreateReturns(l)
  \/ \E l \in LineIds : EnsureDropReturns(l)
  \/ \E l \in LineIds : OpReturns(l)
  \/ \E l \in LineIds : Respond(l)

SpecSequential == Started /\ [][NextSequential]_vars

\* the lines fed when backend calls may hang
FairLines ==
  { NotJson,
    Obj("health"),
    [Obj("listCollections") EXCEPT !.dbName = "d"],
    [InColl("createDocument", "d", "c") EXCEPT !.document = 1] }

\* the program after startup while no termination signal arrives, with a
\* backend that may leave a call unanswered for ever
NextFair ==
  \/ \E l \in LineIds, line \in FairLines : ReadLine(l, line)
  \/ \E l \in LineIds, o \in Outcomes : CallPerformed(l, o)
  \/ \E l \in LineIds : EnsureCreateReturns(l)
  \/ \E l \in LineIds : EnsureDropReturns(l)
  \/ \E l \in LineIds : OpReturns(l)
  \/ \E l \in LineIds : Respond(l)
  \/ \E l \in LineIds : Hang(l)

\* A call that does not hang returns, and the event loop then runs the
\* continuation that awaits it; a resolved await resumes.
Fairness ==
  \A l \in LineIds :
    /\ WF_vars(\E o \in Outcomes : CallPerformed(l, o))
    /\ WF_vars(EnsureCreateReturns(l))
    /\ WF_vars(EnsureDropReturns(l))
    /\ WF_vars(OpReturns(l))
    /\ WF_vars(Respond(l))

SpecFair == Started /\ [][NextFair]_vars /\ Fairness

\* the program after startup with the connection string taken from the
\* environment
Configured ==
  /\ uri \in Uris
  /\ colls = [n \in DbNames |-> {}]
  /\ docs = [p \in DbNames \X CollNames |-> {}]
  /\ idx = {}
  /\ conn = "done"
  /\ lines = [l \in LineIds |-> NoLine]
  /\ pc = [l \in LineIds |-> "unread"]
  /\ req = [l \in LineIds |-> NoCommand]
  /\ log = [l \in LineIds |-> <<>>]
  /\ errs = [l \in LineIds |-> <<>>]
  /\ settled = [l \in LineIds |-> Pending]
  /\ snap = [colls |-> colls, docs |-> docs]
  /\ out = <<>>
  /\ hung = {}
  /\ closeCalls = 0
  /\ closeResult = "none"
  /\ exit = Running

\* the lines fed when the connection string varies
HealthLines ==
  { NotJson,
    Obj("health"),
    Obj("listDatabases"),
    [Obj("listCollections") EXCEPT !.dbName = "d"] }

NextHealth ==
  \/ \E l \in LineIds, line \in HealthLines : ReadLine(l, line)
  \/ \E l \in LineIds, o \in Outcomes : CallPerformed(l, o)
  \/ \E l \in LineIds : EnsureCreateReturns(l)
  \/ \E l \in LineIds : EnsureDropReturns(l)
  \/ \E l \in LineIds : OpReturns(l)
  \/ \E l \in LineIds : Respond(l)

SpecHealth == Configured /\ [][NextHealth]_vars

\* the program after startup on a backend that may hold a document from an
\* earlier run: {x: 1} in d.c
SeedDoc == [id |-> SeedId, x |-> 1]

Seeded ==
  /\ uri = ConfigUri
  /\ docs \in { [p \in DbNames \X CollNames |-> {}],
                [p \in DbNames \X CollNames |-> IF p = <<"d", "c">> THEN {SeedDoc} ELSE {}] }
  /\ colls = [n \in DbNames |-> {c \in CollNames : docs[<<n, c>>] # {}}]
  /\ idx = {}
  /\ conn = "done"
  /\ lines = [l \in LineIds |-> NoLine]
  /\ pc = [l \in LineIds |-> "unread"]
  /\ req = [l \in LineIds |-> NoCommand]
  /\ log = [l \in LineIds |-> <<>>]
  /\ errs = [l \in LineIds |-> <<>>]
  /\ settled = [l \in LineIds |-> Pending]
  /\ snap = [colls |-> colls, docs |-> docs]
  /\ out = <<>>
  /\ hung = {}
  /\ closeCalls = 0
  /\ closeResult = "none"
  /\ exit = Running

\* the lines of a caller that stores documents and reads them back
RoundTripLines ==
  { [InColl("createDocument", "d", "c") EXCEPT !.document = 1],
    [InColl("createDocument", "d", "c") EXCEPT !.document = 2],
    [InColl("findDocuments", "d", "c") EXCEPT !.query = 1],
    [InColl("findDocuments", "d", "c") EXCEPT !.query = 2],
    InColl("findDocuments", "d", "c"),
    [InColl("deleteDocument", "d", "c") EXCEPT !.id = SeedId] }

NextRoundTrip ==
  \/ \E l \in LineIds, line \in RoundTripLines : ReadLineIdle(l, line)
  \/ \E l \in LineIds, o \in Outcomes : CallPerformed(l, o)
  \/ \E l \in LineIds : EnsureCreateReturns(l)
  \/ \E l \in LineIds : EnsureDropReturns(l)
  \/ \E l \in LineIds : OpReturns(l)

SpecRoundTrip == Seeded /\ [][NextRoundTrip]_vars

\* ================================================================== claims
Answers(l) == {i \in 1..Len(out) : out[i].line = l}
IsResult(env) == DOMAIN env = {"result"}
IsError(env) == DOMAIN env = {"error"}
Answered(l) == Answers(l) # {}
Answer(l) == out[CHOOSE i \in Answers(l) : TRUE].env
Read(l) == pc[l] # "unread"
DbScoped(command) == command.command \in Tags \ {"health", "listDatabases"}
DbOf(command) == IF command.dbName # Absent THEN command.dbName ELSE ConfigDefaultDb
Messages(l) == {errs[l][i] : i \in 1..Len(errs[l])}

\* C1: every line has at most one line on standard output, and every line
\* written there is an envelope with exactly one of `result` and `error`,
\* answering a line that was read.
C1_OneEnvelopePerLine ==
  /\ \A l \in LineIds : Cardinality(Answers(l)) <= 1
  /\ \A i \in 1..Len(out) :
       /\ out[i].line \in LineIds
       /\ Read(out[i].line)
       /\ IsResult(out[i].env) \/ IsError(out[i].env)

\* a backend operation has answered one line and a backend failure another
C1_Witness ==
  \E i, j \in 1..Len(out) :
    /\ IsResult(out[i].env)
    /\ out[i].env["result"].kind = "created"
    /\ IsError(out[j].env)
    /\ out[j].env["error"].s = BackendFailure

\* C2: a validated command other than `health` and `listDatabases` calls
\* ensureDatabase once, on its effective database, as the first thing it
\* does; its own operation is issued only when create and drop of the
\* scratch collection have both returned, and never when ensureDatabase
\* failed.
C2_EnsureOnceBeforeOperation ==
  \A l \in LineIds :
    (req[l] # NoCommand /\ DbScoped(req[l])) =>
      LET db == DbOf(req[l])
          n == Len(log[l])
      IN /\ n \in 1..3
         /\ log[l][1] = Call("createCollection", db, ScratchName)
         /\ n >= 2 => log[l][2] = Call("drop", db, ScratchName)
         /\ n = 3 => log[l][3].db = db /\ log[l][3].op # "createCollection"
         /\ pc[l] = "ensureCreate" => n = 1
         /\ pc[l] = "ensureDrop" => n = 2
         /\ pc[l] = "op" => n = 3
         /\ (pc[l] = "done" /\ n < 3) => (Answered(l) => IsError(Answer(l)))

\* a createDocument on database d went through ensureDatabase on d and then
\* through its insert
C2_Witness ==
  \E l \in LineIds :
    /\ req[l].command = "createDocument"
    /\ req[l].dbName = "d"
    /\ Len(log[l]) = 3
    /\ log[l][3].op = "insertOne"
    /\ pc[l] = "done"
    /\ Answered(l) /\ IsResult(Answer(l))

\* C3: a `health` or `listDatabases` line issues no call that creates or
\* drops a collection, and none that names the scratch collection.
C3_NoEnsureForHealthAndListDatabases ==
  \A l \in LineIds :
    (Read(l) /\ lines[l].json /\ lines[l].command \in {"health", "listDatabases"}) =>
      \A i \in 1..Len(log[l]) :
        /\ log[l][i].op \notin {"createCollection", "drop"}
        /\ log[l][i].coll # ScratchName

\* both commands have been answered with a result
C3_Witness ==
  \E l, k \in LineIds :
    /\ lines[l].command = "health" /\ lines[k].command = "listDatabases"
    /\ pc[l] = "done" /\ pc[k] = "done"
    /\ Answered(l) /\ IsResult(Answer(l))
    /\ Answered(k) /\ IsResult(Answer(k))
    /\ log[k] = <<Call("listDatabases", "admin", Absent)>>

\* C4: while another request is between the create and the drop of its
\* ensureDatabase on the same database, the create of a request's
\* ensureDatabase is rejected only if the backend fails on its own account.
PerformedFor(l) == ~settled[l].done /\ settled'[l].done
FailedOnlyOnOwnAccount(r) == r.ok \/ r.val.s = BackendFailure

C4_ConcurrentEnsureNeverRaises ==
  [][\A l, k \in LineIds :
       ( /\ l # k
         /\ pc[l] = "ensureCreate"
         /\ PerformedFor(l)
         /\ pc[k] = "ensureDrop"
         /\ ~settled[k].done
         /\ DbOf(req[l]) = DbOf(req[k]) )
       => FailedOnlyOnOwnAccount(settled'[l])]_vars

\* C5: every error raised while a line is processed, other than the
\* tolerated drop of an absent scratch collection, makes that line's
\* response an `{error}` envelope, and the process keeps running.
C5_EveryErrorBecomesErrorResponse ==
  /\ exit.by # "uncaught"
  /\ \A l \in LineIds :
       (pc[l] = "done" /\ Messages(l) \ {"NamespaceNotFound"} # {}) =>
         (Answered(l) /\ IsError(Answer(l)))

\* C6: a line that is not JSON, or whose JSON is no Command (unknown tag, a
\* missing dbName or collectionName), is answered by one `{error}`
\* envelope, issues no gateway call, constructs no Command and leaves the
\* process running.
NotRecognized(line) ==
  \/ ~line.json
  \/ line.command \notin Tags
  \/ line.command \notin {"health", "listDatabases"} /\ line.dbName = Absent
  \/ line.command \notin {"health", "listDatabases", "listCollections"}
       /\ line.collectionName = Absent

C6_BadLineGetsErrorOnly ==
  \A l \in LineIds :
    (Read(l) /\ NotRecognized(lines[l])) =>
      /\ pc[l] = "done"
      /\ log[l] = <<>>
      /\ req[l] = NoCommand
      /\ Cardinality(Answers(l)) = 1
      /\ IsError(Answer(l))
      /\ exit.by # "uncaught"

\* after a line with an unknown tag, the next line got its result
C6_Witness ==
  \E l \in LineIds \ {MaxLines} :
    /\ lines[l].json /\ lines[l].command = "bogus"
    /\ Answered(l) /\ IsError(Answer(l))
    /\ pc[l + 1] = "done"
    /\ Answered(l + 1) /\ IsResult(Answer(l + 1))

\* C7: two ensureDatabase calls on one database in immediate succession (the
\* first request issued no operation of its own), nothing else in flight
\* and no failure of the backend on its own account: the second call raises
\* only if the first one raised, and when the second call is over the store
\* is the one the first call left.
Latest(l) == Read(l) /\ \A j \in (l + 1)..MaxLines : ~Read(j)
EnsureRaised(l) == pc[l] = "done" /\ Len(log[l]) = 1
EnsureOver(l) ==
  (pc[l] = "op" /\ ~settled[l].done) \/ (pc[l] = "done" /\ Len(log[l]) <= 2)
InSuccession(k, l) ==
  /\ l = k + 1
  /\ Latest(l)
  /\ req[k] # NoCommand /\ DbScoped(req[k])
  /\ req[l] # NoCommand /\ DbScoped(req[l])
  /\ DbOf(req[k]) = DbOf(req[l])
  /\ pc[k] = "done" /\ Len(log[k]) <= 2
  /\ BackendFailure \notin Messages(k) \cup Messages(l)

C7_SequentialEnsureIdempotent ==
  \A k, l \in LineIds :
    InSuccession(k, l) =>
      /\ EnsureRaised(l) => EnsureRaised(k)
      /\ EnsureOver(l) => (colls = snap.colls /\ docs = snap.docs)

\* both calls completed without an error, the second after the first
C7_Witness ==
  \E k, l \in LineIds :
    /\ InSuccession(k, l)
    /\ Len(log[k]) = 2
    /\ errs[k] = <<"invalid ObjectId">>
    /\ pc[l] = "op"
    /\ errs[l] = <<>>

\* C8: lines start in arrival order (a line is started only when every
\* earlier line has been), and an envelope carries nothing but `result` or
\* `error`: no identifier ties it to its line.
C8_LinesStartInArrivalOrder ==
  /\ \A l \in LineIds : Read(l) => \A k \in 1..(l - 1) : Read(k)
  /\ \A i \in 1..Len(out) : DOMAIN out[i].env \subseteq {"result", "error"}

\* the result of a later line's gateway operation is written before the
\* result of an earlier line's
C8_Witness ==
  \E i, j \in 1..Len(out) :
    /\ i < j
    /\ out[i].line > out[j].line
    /\ IsResult(out[i].env) /\ IsResult(out[j].env)
    /\ Len(log[out[i].line]) = 3 /\ Len(log[out[j].line]) = 3

\* C9: every line that is read gets its response unless its own call hangs,
\* whatever the calls of the other lines do; `health` awaits no call and
\* cannot hang.
C9_HungCallStallsOnlyItsLine ==
  \A l \in LineIds : Read(l) ~> ((pc[l] = "done" /\ Answered(l)) \/ l \in hung)

\* line 1 waits for ever on its call, and `health`, read after it, has its
\* result
C9_Witness ==
  /\ hung = {1}
  /\ pc[1] \in {"ensureCreate", "ensureDrop", "op"}
  /\ lines[2].command = "health"
  /\ pc[2] = "done"
  /\ out = <<[line |-> 2, env |-> [result |-> HealthResponse]]>>

\* C10: the process exits through shutdown only after a close was called,
\* with status 0 if that close succeeded and 1 if it failed; no signal ends
\* the process in any other way.
C10_ShutdownClosesThenExits ==
  /\ exit.by # "signal"
  /\ (closeResult # "none") <=> (exit.by = "shutdown")
  /\ exit.by = "shutdown" =>
       /\ closeCalls >= 1
       /\ closeResult = "ok" => exit.status = 0
       /\ closeResult = "failed" => exit.status = 1

\* two signals arrived, and the process exited with 1 after a failed close
C10_Witness ==
  /\ exit = Exit(1, "shutdown")
  /\ closeCalls = 2
  /\ closeResult = "failed"

\* C11: the result of a `listCollections` never names the scratch
\* collection `_init`, whatever the database holds when the listing is taken.
C11_ListingHidesScratch ==
  \A i \in 1..Len(out) :
    (req[out[i].line].command = "listCollections" /\ IsResult(out[i].env)) =>
      ScratchName \notin out[i].env["result"].items

\* the only line read so far is a `listCollections` on d; the drop of its
\* ensureDatabase failed, so the listing was taken with `_init` in d, and the
\* result is the empty list
C11_Witness ==
  /\ pc[1] = "done" /\ pc[2] = "unread"
  /\ req[1].command = "listCollections" /\ req[1].dbName = "d"
  /\ errs[1] = <<BackendFailure>>
  /\ Len(log[1]) = 3
  /\ ScratchName \in colls["d"]
  /\ out = <<[line |-> 1, env |-> [result |-> Array({})]]>>

\* C12: an `updateDocument` or `deleteDocument` whose id is not a
\* well-formed identifier is answered by one `{error}` envelope and by no
\* uncaught failure, no updateOne or deleteOne is issued for it, and no call
\* that the request issues removes or modifies a document of any collection,
\* whatever the other requests do meanwhile.
BadIdRequest(l) ==
  /\ req[l] # NoCommand
  /\ req[l].command \in {"updateDocument", "deleteDocument"}
  /\ ObjectIdThrows(req[l].id)

C12_BadIdIsErrorAndTouchesNothing ==
  [][\A l \in LineIds :
       BadIdRequest(l)' =>
         /\ exit'.by # "uncaught"
         /\ \A i \in 1..Len(log'[l]) : log'[l][i].op \notin {"updateOne", "deleteOne"}
         /\ pc'[l] = "done" =>
              (Cardinality(Answers(l))' = 1 /\ IsError(Answer(l))')
         /\ PerformedFor(l) => docs' = docs]_vars

\* C13: an `updateDocument` whose well-formed id is the id of no document
\* of the collection, once its updateOne has returned, is answered by a
\* result with matchedCount 0 and modifiedCount 0, and the documents are
\* those the line found.
UpdateOfNoDocument(l) ==
  /\ Latest(l)
  /\ req[l] # NoCommand
  /\ req[l].command = "updateDocument"
  /\ ~ObjectIdThrows(req[l].id)
  /\ \A d \in snap.docs[<<DbOf(req[l]), req[l].collectionName>>] : d.id # req[l].id
  /\ pc[l] = "done"
  /\ Len(log[l]) = 3
  /\ BackendFailure \notin Messages(l)

RoundTrip(k, l) ==
  /\ l = k + 1
  /\ Latest(l)
  /\ req[k].command = "createDocument"
  /\ Answered(k) /\ IsResult(Answer(k))
  /\ req[l].command = "findDocuments"
  /\ DbOf(req[l]) = DbOf(req[k])
  /\ req[l].collectionName = req[k].collectionName
  /\ req[l].query = req[k].document
  /\ pc[l] = "done"
  /\ Len(log[l]) = 3
  /\ BackendFailure \notin Messages(l)

Found(l) == Answer(l)["result"].items
CreatedBy(k) == [id |-> Answer(k)["result"].id, x |-> req[k].document]

OtherMatches(k, l) ==
  {d \in snap.docs[<<DbOf(req[l]), req[l].collectionName>>] :
     d.x = req[l].query /\ d.id # Answer(k)["result"].id}

SchemeEnd(u) ==
  Min({i \in 1..(Len(u) - 2) : u[i] = ":" /\ u[i + 1] = "/" /\ u[i + 2] = "/"})
AuthorityStart(u) == SchemeEnd(u) + 3
AuthorityEnd(u) ==
  LET S == {i \in AuthorityStart(u)..Len(u) : u[i] \in {"/", "?"}}
  IN IF S = {} THEN Len(u) ELSE Min(S) - 1
UserInfoEnd(u) ==
  LET S == {i \in AuthorityStart(u)..AuthorityEnd(u) : u[i] = "@"}
  IN IF S = {} THEN 0 ELSE Max(S)
HasCredentials(u) ==
  /\ UserInfoEnd(u) # 0
  /\ \E i \in AuthorityStart(u)..(UserInfoEnd(u) - 1) : u[i] = ":"
CredentialsHidden(u) ==
  IF HasCredentials(u)
  THEN SubSeq(u, 1, AuthorityStart(u) - 1) \o <<"*", "*", "*", "@">>
         \o SubSeq(u, UserInfoEnd(u) + 1, Len(u))
  ELSE u

C15_HealthHidesCredentials ==
  \A l \in LineIds :
    (req[l].command = "health" /\ Answered(l)) =>
      /\ IsResult(Answer(l))
      /\ Answer(l)["result"].status = "ok"
      /\ Answer(l)["result"].version = "0.1.0"
      /\ Answer(l)["result"].defaultDb = ConfigDefaultDb
      /\ Answer(l)["result"].uri = CredentialsHidden(uri)

\* C16: with no termination signal, every line that is read gets its
\* response.  A handler that awaits the return of a backend call can only
\* write its response while the process runs, so the process never stops
\* while such a handler is waiting.
C16_NoReadLineLeftUnanswered ==
  \A l \in LineIds : AtCall(l) => exit = Running

\* C18: the drop at the end of an ensureDatabase call removes no document,
\* whatever the other requests do meanwhile: documents are only ever in
\* collections that client commands wrote to.
C18_EnsureRemovesNoClientData ==
  [][\A l \in LineIds :
       (pc[l] = "ensureDrop" /\ PerformedFor(l)) => docs' = docs]_vars

\* C19: when every earlier request has completed and the backend has failed
\* no call on its own account, the ensureDatabase of a database-scoped
\* command raises no error, whatever the earlier commands were.
NoBackendFailure == \A k \in LineIds : BackendFailure \notin Messages(k)

C19_EnsurePassesAfterAnyCommands ==
  \A l \in LineIds :
    (req[l] # NoCommand /\ DbScoped(req[l]) /\ NoBackendFailure) => ~EnsureRaised(l)

\* C20: with a backend that performs every call, connectDB's create of the
\* scratch collection is not refused because a line handler's
\* ensureDatabase holds `_init` in the default database, and a line
\* handler's create is not refused because connectDB holds it.
C20_StartupUndisturbedByLines ==
  [][ /\ (conn = "create" /\ conn' = "createRejected")
          => ScratchName \notin colls[ConfigDefaultDb]
      /\ \A l \in LineIds :
           ( /\ conn \in {"created", "drop"}
             /\ pc[l] = "ensureCreate"
             /\ DbOf(req[l]) = ConfigDefaultDb
             /\ PerformedFor(l) )
           => FailedOnlyOnOwnAccount(settled'[l]) ]_vars

====
